---------------------------- MODULE Spec2Model ----------------------------
(***************************************************************************)
(* Model of power_of_thor_ep_2.cpp: the per-turn planner FollowMostDistant *)
(* (candidate filtering, target selection, the distance field, the move    *)
(* choice), the agent Thor, the grid GameWorldMap over Matrix, and the     *)
(* driver loop World::NextStep / main.                                     *)
(*                                                                         *)
(* A Point is a record [X, Y].  A Matrix is its Data, a function over the  *)
(* raw indices 0 .. Columns*Rows-1.  NextStep blocks on its input after it *)
(* has written its token, so it is two steps: NextStepDecide (lines        *)
(* 462-465) and NextStepRead (lines 467-468), sequenced by pc.             *)
(***************************************************************************)
EXTENDS Integers, Sequences, FiniteSets, TLC

VARIABLES
    MapWidth,       \* GameWorldMap::MapWidth
    MapHeight,      \* GameWorldMap::MapHeight
    Cells,          \* GameWorldMap::Cells (the Matrix's Data)
    Position,       \* Thor::Position
    StrikeRadius,   \* Thor::StrikeRadius
    StrikesLeft,    \* Thor::StrikesLeft
    Giants,         \* World::Giants, the hazard list of the turn
    pc,             \* "step": about to call NextStep; "read": NextStep waits
                    \* for its input; "failed": main caught the exception;
                    \* "crashed": the process died on an out-of-range access
    output,         \* the line the running NextStep wrote to stdout, "" if none
    debug,          \* the points the running MakeDecision wrote to stderr:
                    \* <<Thor, Giant, Next position>>, or << >>
    entry,          \* history: <<[Position, StrikesLeft, Giants]>> as the
                    \* running NextStep found them, << >> between calls
    initialStrikes, \* history: the budget read by ReadThor
    strikeLines     \* history: number of STRIKE lines written to stdout

vars == <<MapWidth, MapHeight, Cells, Position, StrikeRadius, StrikesLeft,
          Giants, pc, output, debug, entry, initialStrikes, strikeLines>>

(***************************************************************************)
(* Bounds of the model.                                                    *)
(***************************************************************************)
GridW == 4
GridH == 3
MaxGiants == 2
MaxStrikes == 2
MaxRadius == 2
MaxGiantsRaw == 1

(***************************************************************************)
(* MATH UTILS                                                              *)
(***************************************************************************)
INF == 2147483647

Pt(x, y) == [X |-> x, Y |-> y]

Plus(lhs, rhs) == Pt(lhs.X + rhs.X, lhs.Y + rhs.Y)

Minus(lhs, rhs) == Pt(lhs.X - rhs.X, lhs.Y - rhs.Y)

DotProduct(lhs, rhs) == lhs.X * rhs.X + lhs.Y * rhs.Y

Abs(n) == IF n < 0 THEN -n ELSE n

Max(a, b) == IF a < b THEN b ELSE a

\* Despite its name the code computes max(|dx|, |dy|).
ManhattanDistance(lhs, rhs) ==
    LET dxAbs == Abs(lhs.X - rhs.X)
        dyAbs == Abs(lhs.Y - rhs.Y)
    IN  Max(dxAbs, dyAbs)

\* EuclidDistance is sqrtf(float(d.d)).  The model keeps d.d: on a map of at
\* most MAX_MAP_X x MAX_MAP_Y = 40 x 18 cells d.d is an integer of at most
\* 1924, exact as a float, and the roots of two such integers differ by far
\* more than a float's precision, so the code's "<" on the roots is "<" on
\* the squares.
EuclidDistance(lhs, rhs) ==
    LET diff == Minus(rhs, lhs)
    IN  DotProduct(diff, diff)

IsInRadius(point, center, radius) == ManhattanDistance(point, center) <= radius

\* Matrix::AsRawIndex.  The code computes row * Columns + column in size_t,
\* that is modulo 2^64, after static_cast<size_t> of the int coordinates.
\* The model computes the same sum in the integers: the two agree modulo
\* 2^64, so a sum s >= 0 is the raw index itself and a sum s < 0 stands for
\* the raw index 2^64 + s, which is outside every Data.
AsRawIndex(columns, column, row) == row * columns + column

\* Matrix(columns, rows, defaultValue)
NewMatrix(columns, rows, defaultValue) ==
    [i \in 0 .. (columns * rows - 1) |-> defaultValue]

\* Whether Data[AsRawIndex(column, row)] is an element of Data.  Otherwise
\* the unchecked operator[] is undefined behaviour.
InData(data, columns, column, row) ==
    AsRawIndex(columns, column, row) \in DOMAIN data

MatrixGet(data, columns, column, row) == data[AsRawIndex(columns, column, row)]

\* Matrix::Set.  A write outside Data does not change Data (it lands in
\* other memory, or kills the process: see NextStepDecideRaw).
MatrixSet(data, columns, column, row, value) ==
    IF InData(data, columns, column, row)
    THEN [data EXCEPT ![AsRawIndex(columns, column, row)] = value]
    ELSE data

(***************************************************************************)
(* GAME-SPECIFIC UTILS                                                     *)
(***************************************************************************)
GetPossibleDirections ==
    << Pt(-1, -1), Pt(-1, 0), Pt(-1, 1),
       Pt(0, -1),  Pt(0, 0),  Pt(0, 1),
       Pt(1, -1),  Pt(1, 0),  Pt(1, 1) >>

\* Mutant of GetSymbolicDirection: north and south are exchanged.
GetSymbolicDirectionFlipped(current, desired) ==
    LET dir == Minus(desired, current)
        vertical == IF dir.Y > 0 THEN "N" ELSE IF dir.Y < 0 THEN "S" ELSE ""
        horizontal == IF dir.X > 0 THEN "E" ELSE IF dir.X < 0 THEN "W" ELSE ""
        result == vertical \o horizontal
    IN  IF result = "" THEN "WAIT" ELSE result

GetSymbolicDirection(current, desired) ==
    LET dir == Minus(desired, current)
        vertical == IF dir.Y > 0 THEN "S" ELSE IF dir.Y < 0 THEN "N" ELSE ""
        horizontal == IF dir.X > 0 THEN "E" ELSE IF dir.X < 0 THEN "W" ELSE ""
        result == vertical \o horizontal
    IN  IF result = "" THEN "WAIT" ELSE result

(***************************************************************************)
(* GAME ENTITIES                                                           *)
(***************************************************************************)
\* Mutant of CanStrike: "<" for "<=".
CanStrikeInside(thorPosition, strikeRadius, position) ==
    ManhattanDistance(position, thorPosition) < strikeRadius

\* Thor::CanStrike
CanStrike(thorPosition, strikeRadius, position) ==
    ManhattanDistance(position, thorPosition) <= strikeRadius

\* A GameWorldMap value: its three fields.
WorldMapOf(width, height, cells) ==
    [MapWidth |-> width, MapHeight |-> height, Cells |-> cells]

IsOnMap(wm, position) ==
    (position.X >= 0 /\ position.X < wm.MapWidth)
        /\ (position.Y >= 0 /\ position.Y < wm.MapHeight)

GetEntity(wm, position) ==
    MatrixGet(wm.Cells, wm.MapWidth, position.X, position.Y)

HasGiant(wm, position) == GetEntity(wm, position) = "GIANT"

\* GameWorldMap::Set, through PlaceThor and PlaceGiant: no bounds check.
WorldMapSet(wm, position, value) ==
    [wm EXCEPT !.Cells = MatrixSet(wm.Cells, wm.MapWidth, position.X, position.Y, value)]

PlaceThor(wm, position) == WorldMapSet(wm, position, "THOR")

PlaceGiant(wm, position) == WorldMapSet(wm, position, "GIANT")

\* GameWorldMap::Clear()
ClearedCells(width, height) == NewMatrix(width, height, "EMPTY")


(***************************************************************************)
(* STRATEGY: FollowMostDistant                                             *)
(***************************************************************************)
RECURSIVE HasAdjacentGiantsFrom(_, _, _)
HasAdjacentGiantsFrom(wm, position, k) ==
    IF k > Len(GetPossibleDirections) THEN FALSE
    ELSE LET adjacentPosition == Plus(position, GetPossibleDirections[k])
         IN  IF ~IsOnMap(wm, adjacentPosition)
             THEN HasAdjacentGiantsFrom(wm, position, k + 1)
             ELSE IF HasGiant(wm, adjacentPosition) THEN TRUE
             ELSE HasAdjacentGiantsFrom(wm, position, k + 1)

HasAdjacentGiants(wm, position) == HasAdjacentGiantsFrom(wm, position, 1)

RECURSIVE FindAllowedPositionsFrom(_, _, _, _)
FindAllowedPositionsFrom(wm, playerPosition, k, result) ==
    IF k > Len(GetPossibleDirections) THEN result
    ELSE LET nextPosition == Plus(playerPosition, GetPossibleDirections[k])
         IN  IF ~IsOnMap(wm, nextPosition)
             THEN FindAllowedPositionsFrom(wm, playerPosition, k + 1, result)
             ELSE IF ~HasAdjacentGiants(wm, nextPosition)
             THEN FindAllowedPositionsFrom(wm, playerPosition, k + 1,
                                           Append(result, nextPosition))
             ELSE FindAllowedPositionsFrom(wm, playerPosition, k + 1, result)

\* Mutant of FindAllowedPositions: the threatened candidates are kept.
RECURSIVE OnMapPositionsFrom(_, _, _, _)
OnMapPositionsFrom(wm, playerPosition, k, result) ==
    IF k > Len(GetPossibleDirections) THEN result
    ELSE LET nextPosition == Plus(playerPosition, GetPossibleDirections[k])
         IN  OnMapPositionsFrom(wm, playerPosition, k + 1,
                 IF IsOnMap(wm, nextPosition) THEN Append(result, nextPosition)
                                              ELSE result)

FindAllowedPositionsUnfiltered(wm, playerPosition) ==
    OnMapPositionsFrom(wm, playerPosition, 1, << >>)

FindAllowedPositions(wm, playerPosition) ==
    FindAllowedPositionsFrom(wm, playerPosition, 1, << >>)

\* The loop of FindMostDistantGiant from index i (0-based, as in the code)
\* with the running maxIdx and maxDistance; the result is the final maxIdx.
RECURSIVE FindMostDistantFrom(_, _, _, _, _)
FindMostDistantFrom(giants, playerPosition, i, maxIdx, maxDistance) ==
    IF ~(i < Len(giants)) THEN maxIdx
    ELSE LET distanceToGiant == ManhattanDistance(giants[i + 1], playerPosition)
         IN  IF maxDistance < distanceToGiant
             THEN FindMostDistantFrom(giants, playerPosition, i + 1, i, distanceToGiant)
             ELSE FindMostDistantFrom(giants, playerPosition, i + 1, maxIdx, maxDistance)

\* Mutant of FindMostDistantIdx: the maximum is replaced on "<=", so the
\* last of the most distant giants wins.
RECURSIVE FindMostDistantLastFrom(_, _, _, _, _)
FindMostDistantLastFrom(giants, playerPosition, i, maxIdx, maxDistance) ==
    IF ~(i < Len(giants)) THEN maxIdx
    ELSE LET distanceToGiant == ManhattanDistance(giants[i + 1], playerPosition)
         IN  IF maxDistance <= distanceToGiant
             THEN FindMostDistantLastFrom(giants, playerPosition, i + 1, i, distanceToGiant)
             ELSE FindMostDistantLastFrom(giants, playerPosition, i + 1, maxIdx, maxDistance)

FindMostDistantIdxLast(giants, playerPosition) ==
    FindMostDistantLastFrom(giants, playerPosition, 0, 0, 0)

\* The 0-based index FindMostDistantGiant returns the element of.
FindMostDistantIdx(giants, playerPosition) ==
    FindMostDistantFrom(giants, playerPosition, 0, 0, 0)

FindMostDistantGiant(giants, playerPosition) ==
    giants[FindMostDistantIdx(giants, playerPosition) + 1]

\* The locals of FindDistancesToPoint: distances, visited, toVisit; and a
\* history of the search: labelled, the cells setDistance was called on, in
\* order; discovered, for every call of setDistance made by findToVisit the
\* cell, the cell being expanded and whether the cell was pushed; dequeued,
\* the cells the while loop took from the queue, in order.
SetDistance(wm, st, position, distance) ==
    [st EXCEPT
        !.distances = MatrixSet(@, wm.MapWidth, position.X, position.Y, distance),
        !.visited = MatrixSet(@, wm.MapWidth, position.X, position.Y, TRUE),
        !.labelled = Append(@, position)]

\* Mutant of FindToVisitFrom: every discovered cell is pushed.
RECURSIVE FindToVisitFromEager(_, _, _, _)
FindToVisitFromEager(wm, st, position, k) ==
    IF k > Len(GetPossibleDirections) THEN st
    ELSE LET candidateToVisit == Plus(position, GetPossibleDirections[k])
         IN  IF ~IsOnMap(wm, candidateToVisit)
                  \/ MatrixGet(st.visited, wm.MapWidth,
                               candidateToVisit.X, candidateToVisit.Y)
             THEN FindToVisitFromEager(wm, st, position, k + 1)
             ELSE LET labelled ==
                          SetDistance(wm, st, candidateToVisit,
                              MatrixGet(st.distances, wm.MapWidth,
                                        position.X, position.Y) + 1)
                      pushed ==
                          [labelled EXCEPT
                              !.toVisit = Append(@, candidateToVisit),
                              !.discovered = Append(@,
                                  [cell |-> candidateToVisit, parent |-> position,
                                   pushed |-> TRUE])]
                  IN  FindToVisitFromEager(wm, pushed, position, k + 1)

RECURSIVE FindToVisitFrom(_, _, _, _)
FindToVisitFrom(wm, st, position, k) ==
    IF k > Len(GetPossibleDirections) THEN st
    ELSE LET candidateToVisit == Plus(position, GetPossibleDirections[k])
         IN  IF ~IsOnMap(wm, candidateToVisit)
                  \/ MatrixGet(st.visited, wm.MapWidth,
                               candidateToVisit.X, candidateToVisit.Y)
             THEN FindToVisitFrom(wm, st, position, k + 1)
             ELSE LET labelled ==
                          SetDistance(wm, st, candidateToVisit,
                              MatrixGet(st.distances, wm.MapWidth,
                                        position.X, position.Y) + 1)
                      pushed ==
                          IF ~HasAdjacentGiants(wm, candidateToVisit)
                          THEN [labelled EXCEPT
                                   !.toVisit = Append(@, candidateToVisit),
                                   !.discovered = Append(@,
                                       [cell |-> candidateToVisit,
                                        parent |-> position, pushed |-> TRUE])]
                          ELSE [labelled EXCEPT
                                   !.discovered = Append(@,
                                       [cell |-> candidateToVisit,
                                        parent |-> position, pushed |-> FALSE])]
                  IN  FindToVisitFrom(wm, pushed, position, k + 1)

FindToVisit(wm, st, position) == FindToVisitFrom(wm, st, position, 1)

\* The for loop over the target's neighbours (lines 427-434).
RECURSIVE SeedFrom(_, _, _, _)
SeedFrom(wm, st, point, k) ==
    IF k > Len(GetPossibleDirections) THEN st
    ELSE LET nextPosition == Plus(point, GetPossibleDirections[k])
         IN  IF ~IsOnMap(wm, nextPosition)
                  \/ MatrixGet(st.visited, wm.MapWidth, nextPosition.X, nextPosition.Y)
             THEN SeedFrom(wm, st, point, k + 1)
             ELSE SeedFrom(wm,
                           FindToVisit(wm, SetDistance(wm, st, nextPosition, 1),
                                       nextPosition),
                           point, k + 1)

\* The while loop over the queue (lines 436-440).
RECURSIVE Drain(_, _)
Drain(wm, st) ==
    IF st.toVisit = << >> THEN st
    ELSE LET next == Head(st.toVisit)
             found == FindToVisit(wm, st, next)
         IN  Drain(wm, [found EXCEPT !.toVisit = Tail(@),
                                     !.dequeued = Append(@, next)])

\* FindDistancesToPoint up to its return: the locals and the history.
FindDistancesSearch(wm, point) ==
    LET st0 == [distances |-> NewMatrix(wm.MapWidth, wm.MapHeight, INF),
                visited |-> NewMatrix(wm.MapWidth, wm.MapHeight, FALSE),
                toVisit |-> << >>,
                labelled |-> << >>, discovered |-> << >>, dequeued |-> << >>]
        st1 == SetDistance(wm, st0, point, 0)
    IN  Drain(wm, SeedFrom(wm, st1, point, 1))

\* The distance field: the Data of the returned DistanceMap.
FindDistancesToPoint(wm, point) == FindDistancesSearch(wm, point).distances

SeqToSet(s) == {s[i] : i \in 1 .. Len(s)}

\* Mutant of FieldLess: equal field values are not told apart.
FieldLessNoTieBreak(distances, columns, giantPosition, lhs, rhs) ==
    MatrixGet(distances, columns, lhs.X, lhs.Y)
        < MatrixGet(distances, columns, rhs.X, rhs.Y)

\* Mutant of FieldLess: the larger field value comes first.
FieldGreater(distances, columns, giantPosition, lhs, rhs) ==
    MatrixGet(distances, columns, lhs.X, lhs.Y)
        > MatrixGet(distances, columns, rhs.X, rhs.Y)

\* The comparator of the first std::sort (lines 342-349).
FieldLess(distances, columns, giantPosition, lhs, rhs) ==
    LET lhsDistance == MatrixGet(distances, columns, lhs.X, lhs.Y)
        rhsDistance == MatrixGet(distances, columns, rhs.X, rhs.Y)
    IN  IF lhsDistance = rhsDistance
        THEN EuclidDistance(lhs, giantPosition) < EuclidDistance(rhs, giantPosition)
        ELSE lhsDistance < rhsDistance

\* Mutant of FallbackLess: the comparison is turned round.
FallbackGreater(giantPosition, lhs, rhs) ==
    ManhattanDistance(lhs, giantPosition) > ManhattanDistance(rhs, giantPosition)

\* The comparator of the second std::sort (lines 351-353).
FallbackLess(giantPosition, lhs, rhs) ==
    ManhattanDistance(lhs, giantPosition) < ManhattanDistance(rhs, giantPosition)

\* FindNextPosition: the positions allowedPositions.front() can be after the
\* std::sort.  std::sort is not stable, so among candidates the comparator
\* ranks equal the standard leaves open which one comes first: the result is
\* any candidate that no other candidate is less than.
FindNextPosition(wm, playerPosition, giantPosition, allowedPositions) ==
    LET distances == FindDistancesToPoint(wm, giantPosition)
        allowed == SeqToSet(allowedPositions)
    IN  IF MatrixGet(distances, wm.MapWidth, playerPosition.X, playerPosition.Y) # INF
        THEN {p \in allowed : \A q \in allowed :
                  ~FieldLess(distances, wm.MapWidth, giantPosition, q, p)}
        ELSE {p \in allowed : \A q \in allowed : ~FallbackLess(giantPosition, q, p)}

\* What one call of MakeDecision does: whether it threw, the token it
\* returned, Thor's position and StrikesLeft after it, its stderr points.
Outcome(thrown, token, position, strikesLeft, dbg) ==
    [thrown |-> thrown, token |-> token, position |-> position,
     strikesLeft |-> strikesLeft, debug |-> dbg]

\* Mutant of StrikeOutcome: Strike without its guard returns silently when no
\* strike is left, and the turn waits.
StrikeOutcomeSilent(playerPosition, strikesLeft) ==
    IF strikesLeft <= 0
    THEN Outcome(FALSE, "WAIT", playerPosition, strikesLeft, << >>)
    ELSE Outcome(FALSE, "STRIKE", playerPosition, strikesLeft - 1, << >>)

\* Player.Strike(); return "STRIKE";
StrikeOutcome(playerPosition, strikesLeft) ==
    IF strikesLeft <= 0
    THEN Outcome(TRUE, "", playerPosition, strikesLeft, << >>)
    ELSE Outcome(FALSE, "STRIKE", playerPosition, strikesLeft - 1, << >>)

\* MoveThor, with the three WritePoint lines before it.
MoveThor(playerPosition, strikesLeft, giantPosition, nextPosition) ==
    Outcome(FALSE, GetSymbolicDirection(playerPosition, nextPosition),
            nextPosition, strikesLeft,
            <<playerPosition, giantPosition, nextPosition>>)

\* MakeDecision on the filled map wm: the set of its possible outcomes.
MakeDecision(wm, giants, playerPosition, strikeRadius, strikesLeft) ==
    IF giants = << >>
    THEN {Outcome(FALSE, "WAIT", playerPosition, strikesLeft, << >>)}
    ELSE LET allowedPositions == FindAllowedPositions(wm, playerPosition)
         IN  IF allowedPositions = << >>
             THEN {StrikeOutcome(playerPosition, strikesLeft)}
             ELSE LET mostDistantGiant == FindMostDistantGiant(giants, playerPosition)
                  IN  IF CanStrike(playerPosition, strikeRadius, mostDistantGiant)
                      THEN {StrikeOutcome(playerPosition, strikesLeft)}
                      ELSE {MoveThor(playerPosition, strikesLeft, mostDistantGiant, n) :
                                n \in FindNextPosition(wm, playerPosition,
                                                       mostDistantGiant, allowedPositions)}

(***************************************************************************)
(* World                                                                   *)
(***************************************************************************)
RECURSIVE PlaceGiantsFrom(_, _, _)
PlaceGiantsFrom(wm, giants, i) ==
    IF i > Len(giants) THEN wm
    ELSE PlaceGiantsFrom(PlaceGiant(wm, giants[i]), giants, i + 1)

\* Mutant of FillWorldMap: Thor is placed after the giants, so Thor's cell
\* hides a giant standing on it.
FillWorldMapThorLast(wm, playerPosition, giants) ==
    PlaceThor(PlaceGiantsFrom(wm, giants, 1), playerPosition)

\* World::FillWorldMap: Thor first, then the giants in list order.
FillWorldMap(wm, playerPosition, giants) ==
    PlaceGiantsFrom(PlaceThor(wm, playerPosition), giants, 1)

\* The grid cells as Points.
GridPoints(width, height) ==
    {Pt(x, y) : x \in 0 .. (width - 1), y \in 0 .. (height - 1)}

\* The grid cells and the ring of points one step outside the grid.
RawPoints(width, height) ==
    {Pt(x, y) : x \in -1 .. width, y \in -1 .. height}

\* What ReadGiants can return: the lists of at most n of the given points.
GiantLists(points, n) ==
    {<< >>} \cup UNION {[1 .. k -> points] : k \in 1 .. n}

\* The GameWorldMap as NextStep finds it.
WorldMap == WorldMapOf(MapWidth, MapHeight, Cells)

\* Whether FillWorldMap or FindDistancesToPoint would index outside Data:
\* they index with Thor's position, the giants' positions, and cells that
\* passed IsOnMap.
OutOfRangeAccess ==
    \/ ~InData(Cells, MapWidth, Position.X, Position.Y)
    \/ \E i \in 1 .. Len(Giants) : ~InData(Cells, MapWidth, Giants[i].X, Giants[i].Y)

\* World(input) for a width x height map: the state after construction.
InitWorld(width, height, positions, radii, budgets, giantLists) ==
    /\ MapWidth = width
    /\ MapHeight = height
    /\ Cells = ClearedCells(width, height)
    /\ Position \in positions
    /\ StrikeRadius \in radii
    /\ StrikesLeft \in budgets
    /\ Giants \in giantLists
    /\ pc = "step"
    /\ output = ""
    /\ debug = << >>
    /\ entry = << >>
    /\ initialStrikes = StrikesLeft
    /\ strikeLines = 0

\* NextStep from MakeDecision on the filled map wm up to ClearWorldMap
\* (lines 463-465), and main's catch when Strike throws (lines 546-549):
\* then nothing is written to stdout and the map is not cleared.
Turn(wm) ==
    \E d \in MakeDecision(wm, Giants, Position, StrikeRadius, StrikesLeft) :
        /\ entry' = <<[Position |-> Position, StrikesLeft |-> StrikesLeft,
                       Giants |-> Giants]>>
        /\ IF d.thrown
           THEN /\ pc' = "failed"
                /\ Cells' = wm.Cells
                /\ output' = ""
                /\ debug' = d.debug
                /\ UNCHANGED <<MapWidth, MapHeight, Position, StrikeRadius,
                               StrikesLeft, Giants, initialStrikes, strikeLines>>
           ELSE /\ pc' = "read"
                /\ Cells' = ClearedCells(MapWidth, MapHeight)
                /\ output' = d.token
                /\ debug' = d.debug
                /\ Position' = d.position
                /\ StrikesLeft' = d.strikesLeft
                /\ strikeLines' = IF d.token = "STRIKE" THEN strikeLines + 1
                                                         ELSE strikeLines
                /\ UNCHANGED <<MapWidth, MapHeight, StrikeRadius, Giants,
                               initialStrikes>>

\* NextStep, lines 462-465, on input inside the grid.
NextStepDecide ==
    /\ pc = "step"
    /\ Turn(FillWorldMap(WorldMap, Position, Giants))

\* NextStep, lines 462-465, on any input.  Indexing outside Data is
\* undefined behaviour: the process dies, or the access touches memory that
\* is not the grid and the turn goes on.
NextStepDecideRaw ==
    /\ pc = "step"
    /\ \/ /\ OutOfRangeAccess
          /\ pc' = "crashed"
          /\ UNCHANGED <<MapWidth, MapHeight, Cells, Position, StrikeRadius,
                         StrikesLeft, Giants, output, debug, entry,
                         initialStrikes, strikeLines>>
       \/ Turn(FillWorldMap(WorldMap, Position, Giants))

\* Mutant of NextStepRead: the remaining-strikes number read is trusted.
NextStepReadTrusting(giantLists) ==
    /\ pc = "read"
    /\ \E remaining \in 0 .. MaxStrikes, giants \in giantLists :
        /\ Giants' = giants
        /\ StrikesLeft' = remaining
        /\ pc' = "step"
        /\ output' = ""
        /\ debug' = << >>
        /\ entry' = << >>
        /\ UNCHANGED <<MapWidth, MapHeight, Cells, Position, StrikeRadius,
                       initialStrikes, strikeLines>>

\* NextStep, lines 467-468: the remaining-strikes number is read and dropped,
\* the giants are replaced by the list read.
NextStepRead(giantLists) ==
    /\ pc = "read"
    /\ \E remaining \in 0 .. MaxStrikes, giants \in giantLists :
        /\ Giants' = giants
        /\ pc' = "step"
        /\ output' = ""
        /\ debug' = << >>
        /\ entry' = << >>
        /\ UNCHANGED <<MapWidth, MapHeight, Cells, Position, StrikeRadius,
                       StrikesLeft, initialStrikes, strikeLines>>

(***************************************************************************)
(* Specifications                                                          *)
(***************************************************************************)
\* Runs on a GridW x GridH map with every hazard inside the grid.
Init ==
    InitWorld(GridW, GridH, GridPoints(GridW, GridH), 1 .. MaxRadius,
              0 .. MaxStrikes, GiantLists(GridPoints(GridW, GridH), MaxGiants))

Next ==
    \/ NextStepDecide
    \/ NextStepRead(GiantLists(GridPoints(MapWidth, MapHeight), MaxGiants))

Spec == Init /\ [][Next]_vars

\* Single calls of NextStep on a 5 x 5 map with strike radius 1, 2 strikes
\* left and one hazard: the end-to-end scenario and the same scenario with
\* the agent and the hazard on every other cell.
InitE2E ==
    InitWorld(5, 5, GridPoints(5, 5), {1}, {2},
              {<<g>> : g \in GridPoints(5, 5)})

SpecE2E == InitE2E /\ [][NextStepDecide]_vars

\* Runs on a GridW x GridH map whose hazards may also lie one step outside
\* the grid.
InitRaw ==
    InitWorld(GridW, GridH, GridPoints(GridW, GridH), 1 .. MaxRadius,
              0 .. MaxStrikes, GiantLists(RawPoints(GridW, GridH), MaxGiantsRaw))

NextRaw ==
    \/ NextStepDecideRaw
    \/ NextStepRead(GiantLists(RawPoints(MapWidth, MapHeight), MaxGiantsRaw))

SpecRaw == InitRaw /\ [][NextRaw]_vars

(***************************************************************************)
(* Notions the properties are stated in, defined from a hazard list and    *)
(* the grid dimensions alone.                                              *)
(***************************************************************************)
Chebyshev(a, b) ==
    IF Abs(a.X - b.X) >= Abs(a.Y - b.Y) THEN Abs(a.X - b.X) ELSE Abs(a.Y - b.Y)

OnGrid(p) == p.X \in 0 .. (MapWidth - 1) /\ p.Y \in 0 .. (MapHeight - 1)

Grid == GridPoints(MapWidth, MapHeight)

\* A cell within Chebyshev distance 1 of a hazard of the list g.
Threatened(g, p) == \E i \in 1 .. Len(g) : Chebyshev(p, g[i]) <= 1

\* The 9 king-move destinations from p.
KingMoves(p) == {Pt(p.X + dx, p.Y + dy) : dx \in -1 .. 1, dy \in -1 .. 1}

\* The candidate set of the agent at p among the hazards g.
Candidates(g, p) == {q \in KingMoves(p) : OnGrid(q) /\ ~Threatened(g, q)}

\* The index (from 1; the code's index plus 1) of the hazard the selector is
\* to pick for the agent at p: the first listed among the most distant.
SelectedIndex(g, p) ==
    CHOOSE i \in 1 .. Len(g) :
        /\ \A j \in 1 .. Len(g) : Chebyshev(g[j], p) <= Chebyshev(g[i], p)
        /\ \A j \in 1 .. (i - 1) : Chebyshev(g[j], p) < Chebyshev(g[i], p)

SelectedHazard(g, p) == g[SelectedIndex(g, p)]

\* The agent at p has no king-move destination on the grid that is not
\* threatened.
BoxedIn(g, p) == Candidates(g, p) = {}

\* The selected hazard is within the strike radius of the agent at p.
TargetInRadius(g, p) == Chebyshev(SelectedHazard(g, p), p) <= StrikeRadius

\* The map MakeDecision works on when the agent is at p among the hazards g.
FilledMap(g, p) ==
    FillWorldMap(WorldMapOf(MapWidth, MapHeight, ClearedCells(MapWidth, MapHeight)),
                 p, g)

\* The value the distance field rooted at target holds at cell c, the agent
\* being at p among the hazards g.
FieldAt(g, p, target, c) ==
    MatrixGet(FindDistancesToPoint(FilledMap(g, p), target), MapWidth, c.X, c.Y)

\* The agent's position, its counter and the hazards as the running NextStep
\* found them.
AtEntry == entry[1]

\* A NextStep call has run MakeDecision: it wrote its token, or it threw.
Decided == pc \in {"read", "failed"}

Compass == {"N", "S", "E", "W", "NE", "NW", "SE", "SW"}

(***************************************************************************)
(* C1                                                                      *)
(***************************************************************************)
\* C1: with the agent and all hazards inside the grid, whenever a turn with
\* at least one hazard returns a token other than STRIKE, the agent's new
\* cell is inside the grid and further than Chebyshev distance 1 from every
\* hazard of that turn (staying in place included).
C1_SafeDestination ==
    (pc = "read" /\ AtEntry.Giants # << >> /\ output # "STRIKE")
        => /\ OnGrid(Position)
           /\ \A i \in 1 .. Len(AtEntry.Giants) :
                  Chebyshev(Position, AtEntry.Giants[i]) > 1

\* The agent stood on a threatened cell with threatened and safe cells
\* around it, and moved.
C1_Witness ==
    /\ pc = "read"
    /\ output \in Compass
    /\ Position # AtEntry.Position
    /\ Threatened(AtEntry.Giants, AtEntry.Position)
    /\ \E q \in KingMoves(AtEntry.Position) :
          OnGrid(q) /\ Threatened(AtEntry.Giants, q) /\ q # AtEntry.Position

(***************************************************************************)
(* C2                                                                      *)
(***************************************************************************)
\* Cells of the grid one king-move from p.
Neighbours(p) == {q \in Grid : Chebyshev(p, q) = 1}

\* Breadth-first levels from the target: ring holds the cells at distance k,
\* labelled maps every cell reached so far to its distance.  The ring at
\* distance 1 is the frontier the search starts with; from distance 2 on a
\* cell is expanded only if it is not threatened.
RECURSIVE Spread(_, _, _, _)
Spread(g, labelled, ring, k) ==
    LET expanded == IF k = 1 THEN ring ELSE {c \in ring : ~Threatened(g, c)}
        next == {q \in Grid \ DOMAIN labelled : \E c \in expanded : Chebyshev(c, q) = 1}
    IN  IF next = {} THEN labelled
        ELSE Spread(g, labelled @@ [q \in next |-> k + 1], next, k + 1)

\* The least number of king-moves from target to c along a path whose
\* expanded cells are not threatened by the hazards g, INF if there is none.
TrueDistance(g, target, c) ==
    LET ring1 == Neighbours(target)
        labelled == Spread(g, (target :> 0) @@ [q \in ring1 |-> 1], ring1, 1)
    IN  IF c \in DOMAIN labelled THEN labelled[c] ELSE INF

\* C2: for every hazard placement inside the grid and every hazard cell as
\* target, the field is 0 at the target, 1 at each of the target's
\* neighbours on the grid, and elsewhere the least number of king-moves from
\* the target along a path whose expanded cells are not threatened, or INF.
C2_FieldIsShortestPath ==
    pc = "step" =>
        \A i \in 1 .. Len(Giants) :
            /\ FieldAt(Giants, Position, Giants[i], Giants[i]) = 0
            /\ \A n \in Neighbours(Giants[i]) :
                   FieldAt(Giants, Position, Giants[i], n) = 1
            /\ \A c \in Grid :
                   FieldAt(Giants, Position, Giants[i], c)
                       = TrueDistance(Giants, Giants[i], c)

(***************************************************************************)
(* C3                                                                      *)
(***************************************************************************)
\* One NextStep has been run on the end-to-end scenario: 5 x 5 grid, agent at
\* (2,2), strike radius 1, 2 strikes left, a single hazard at (0,0).
E2EPlayed ==
    /\ Decided
    /\ MapWidth = 5 /\ MapHeight = 5
    /\ StrikeRadius = 1
    /\ AtEntry.Position = Pt(2, 2)
    /\ AtEntry.StrikesLeft = 2
    /\ AtEntry.Giants = <<Pt(0, 0)>>

\* C3 as stated: in the scenario one NextStep selects the hazard at (0,0),
\* does not strike, and moves the agent to (1,1) with the token "NW".
C3_AsStated ==
    E2EPlayed
        => /\ pc = "read"
           /\ StrikesLeft = 2
           /\ Len(debug) = 3 /\ debug[2] = Pt(0, 0)
           /\ Position = Pt(1, 1)
           /\ output = "NW"

\* C3 amended: in the scenario one NextStep selects the hazard at (0,0), does
\* not strike, and moves the agent from (2,2) to (1,2) with the token "W"
\* ((1,1) is threatened by the hazard and is not a candidate).
C3_MovesWest ==
    E2EPlayed
        => /\ pc = "read"
           /\ StrikesLeft = 2
           /\ debug = <<Pt(2, 2), Pt(0, 0), Pt(1, 2)>>
           /\ Position = Pt(1, 2)
           /\ output = "W"

\* The scenario's turn has been played and the agent has moved.
C3_Witness == E2EPlayed /\ Position # Pt(2, 2)

(***************************************************************************)
(* C4                                                                      *)
(***************************************************************************)
\* C4: for every non-empty hazard list and agent position the selector
\* returns the hazard with the smallest index among those at maximal
\* Chebyshev distance from the agent, the planner's target is that hazard,
\* and the hazard list is after the decision what it was before.
C4_FirstMostDistant ==
    /\ (pc = "step" /\ Giants # << >>)
          => /\ FindMostDistantIdx(Giants, Position) + 1 = SelectedIndex(Giants, Position)
             /\ FindMostDistantGiant(Giants, Position) = SelectedHazard(Giants, Position)
    /\ Decided
          => /\ Giants = AtEntry.Giants
             /\ debug # << >>
                   => debug[2] = SelectedHazard(AtEntry.Giants, AtEntry.Position)

\* The agent moved towards the first of two hazards on different cells at
\* the same, maximal distance.
C4_Witness ==
    /\ pc = "read"
    /\ debug # << >>
    /\ Position # AtEntry.Position
    /\ Len(Giants) = 2
    /\ Giants[1] # Giants[2]
    /\ Chebyshev(Giants[1], AtEntry.Position) = Chebyshev(Giants[2], AtEntry.Position)
    /\ debug[2] = Giants[1]

(***************************************************************************)
(* C5                                                                      *)
(***************************************************************************)
\* C5: in a turn with at least one hazard and at least one strike left, the
\* token is STRIKE exactly when the agent is boxed in or the selected hazard
\* is within the strike radius of the agent's current position; otherwise it
\* is a compass direction or WAIT.
C5_StrikeExactlyWhen ==
    (Decided /\ AtEntry.Giants # << >> /\ AtEntry.StrikesLeft >= 1)
        => /\ pc = "read"
           /\ (output = "STRIKE")
                  <=> \/ BoxedIn(AtEntry.Giants, AtEntry.Position)
                      \/ TargetInRadius(AtEntry.Giants, AtEntry.Position)
           /\ output # "STRIKE" => output \in Compass \cup {"WAIT"}

\* A boxed-in agent struck although the selected hazard was out of radius.
C5_Witness ==
    /\ pc = "read"
    /\ output = "STRIKE"
    /\ BoxedIn(AtEntry.Giants, AtEntry.Position)
    /\ ~TargetInRadius(AtEntry.Giants, AtEntry.Position)

(***************************************************************************)
(* C6                                                                      *)
(***************************************************************************)
\* C6: when the planner decides on the strike with no strike left, the run
\* ends in the failed state: no token is written for the turn, the counter
\* stays 0, the agent stays where it is, and no step follows.
C6_ExhaustedStrikeIsFatal ==
    /\ (Decided /\ AtEntry.Giants # << >> /\ AtEntry.StrikesLeft = 0
            /\ (\/ BoxedIn(AtEntry.Giants, AtEntry.Position)
                \/ TargetInRadius(AtEntry.Giants, AtEntry.Position)))
          => /\ pc = "failed"
             /\ output = ""
             /\ StrikesLeft = 0
             /\ Position = AtEntry.Position
    /\ pc = "failed" => ~ENABLED Next

\* The run failed on a strike after the budget had been spent on strikes.
C6_Witness ==
    /\ pc = "failed"
    /\ AtEntry.StrikesLeft = 0
    /\ strikeLines >= 1
    /\ output = ""

(***************************************************************************)
(* C7                                                                      *)
(***************************************************************************)
\* C7: in a turn where the planner moves and the agent's cell holds INF in
\* the field rooted at the selected hazard, the destination is a candidate
\* whose Chebyshev distance to the selected hazard is least among all the
\* candidates.
C7_FallbackMinimisesChebyshev ==
    (pc = "read" /\ debug # << >>
        /\ FieldAt(AtEntry.Giants, AtEntry.Position,
                   SelectedHazard(AtEntry.Giants, AtEntry.Position),
                   AtEntry.Position) = INF)
        => /\ Position \in Candidates(AtEntry.Giants, AtEntry.Position)
           /\ \A q \in Candidates(AtEntry.Giants, AtEntry.Position) :
                  Chebyshev(Position, SelectedHazard(AtEntry.Giants, AtEntry.Position))
                      <= Chebyshev(q, SelectedHazard(AtEntry.Giants, AtEntry.Position))

\* The planner left a cell the field does not reach, with candidates at
\* different Chebyshev distances from the selected hazard to choose from.
C7_Witness ==
    /\ pc = "read"
    /\ debug # << >>
    /\ Position # AtEntry.Position
    /\ FieldAt(AtEntry.Giants, AtEntry.Position, debug[2], AtEntry.Position) = INF
    /\ \E q1, q2 \in Candidates(AtEntry.Giants, AtEntry.Position) :
          Chebyshev(q1, debug[2]) < Chebyshev(q2, debug[2])

(***************************************************************************)
(* C8                                                                      *)
(***************************************************************************)
\* The displacement a token denotes: the vertical letter (S row+1, N row-1)
\* followed by the horizontal letter (E column+1, W column-1).
Displacement(token) ==
    CASE token = "N" -> Pt(0, -1)
      [] token = "S" -> Pt(0, 1)
      [] token = "E" -> Pt(1, 0)
      [] token = "W" -> Pt(-1, 0)
      [] token = "NE" -> Pt(1, -1)
      [] token = "NW" -> Pt(-1, -1)
      [] token = "SE" -> Pt(1, 1)
      [] token = "SW" -> Pt(-1, 1)
      [] token = "WAIT" -> Pt(0, 0)
      [] token = "STRIKE" -> Pt(0, 0)

\* C8: after every turn the agent's position is its position before the
\* turn plus the displacement the written token denotes; WAIT and STRIKE
\* denote none.
C8_TokenIsDisplacement ==
    pc = "read"
        => /\ output \in Compass \cup {"WAIT", "STRIKE"}
           /\ Position = Pt(AtEntry.Position.X + Displacement(output).X,
                            AtEntry.Position.Y + Displacement(output).Y)

\* A turn moved the agent to column+1, row-1 and wrote "NE".
C8_Witness ==
    /\ pc = "read"
    /\ Position = Pt(AtEntry.Position.X + 1, AtEntry.Position.Y - 1)
    /\ output = "NE"

(***************************************************************************)
(* C9                                                                      *)
(***************************************************************************)
\* C9: started with a budget >= 0, the counter is always >= 0 and equals the
\* budget minus the number of STRIKE tokens written; a turn that writes
\* STRIKE lowers it by exactly 1, every other turn leaves it as it was, and
\* reading the next input, the driver's remaining count included, leaves it
\* as the turn left it.
C9_CounterTracksStrikes ==
    /\ StrikesLeft >= 0
    /\ StrikesLeft = initialStrikes - strikeLines
    /\ pc = "read"
          => StrikesLeft = AtEntry.StrikesLeft - (IF output = "STRIKE" THEN 1 ELSE 0)
    /\ pc = "failed" => StrikesLeft = AtEntry.StrikesLeft

\* Every strike of the budget has been used and the input of the turn
\* after, with whatever remaining count the driver sent, has been read.
C9_Witness ==
    /\ pc = "step"
    /\ initialStrikes = MaxStrikes
    /\ strikeLines = MaxStrikes
    /\ StrikesLeft = 0

(***************************************************************************)
(* C10                                                                     *)
(***************************************************************************)
\* C10: a turn whose hazard list holds a position outside the grid ends the
\* run, no token being returned for it, and placing the hazards never marks
\* a cell of the grid that is no hazard's position.
C10_OutOfGridIsFatal ==
    /\ pc = "read" => \A i \in 1 .. Len(AtEntry.Giants) : OnGrid(AtEntry.Giants[i])
    /\ pc = "step" =>
          \A c \in Grid :
              GetEntity(FillWorldMap(WorldMap, Position, Giants), c) = "GIANT"
                  => \E i \in 1 .. Len(Giants) : Giants[i] = c

(***************************************************************************)
(* C11                                                                     *)
(***************************************************************************)
\* The search FindDistancesToPoint(target) runs on the map filled with the
\* agent at p and the hazards g.
SearchOf(g, p, target) == FindDistancesSearch(FilledMap(g, p), target)

\* The cells a search from target can label at all: the target, its
\* neighbours, and every neighbour of a cell that can be expanded, which is
\* a neighbour of the target or an unthreatened cell that can be labelled.
Labellable(g, target) ==
    DOMAIN Spread(g, (target :> 0) @@ [q \in Neighbours(target) |-> 1],
                  Neighbours(target), 1)

\* C11 for the search rooted at target.
SearchIsGated(g, p, target) ==
    LET s == SearchOf(g, p, target)
        value(c) == MatrixGet(s.distances, MapWidth, c.X, c.Y)
        pushedCells == SelectSeq(s.discovered, LAMBDA d : d.pushed)
    IN  \* a discovered cell is an unvisited neighbour of the cell expanded,
        \* labelled parent + 1, and pushed iff it is not threatened
        /\ \A j \in 1 .. Len(s.discovered) :
              LET d == s.discovered[j]
              IN  /\ d.cell \in Neighbours(d.parent)
                  /\ value(d.cell) = value(d.parent) + 1
                  /\ d.pushed <=> ~Threatened(g, d.cell)
        \* the cells dequeued are the cells pushed, in order, none threatened
        /\ s.dequeued = [j \in 1 .. Len(pushedCells) |-> pushedCells[j].cell]
        /\ \A j \in 1 .. Len(s.dequeued) : ~Threatened(g, s.dequeued[j])
        \* every neighbour on the grid of an expanded cell is labelled,
        \* threatened or not
        /\ \A e \in SeqToSet(s.dequeued) \cup {s.discovered[j].parent :
                                                  j \in 1 .. Len(s.discovered)} :
              \A n \in Neighbours(e) : value(n) # INF
        \* each cell is labelled at most once
        /\ \A j, k \in 1 .. Len(s.labelled) :
              s.labelled[j] = s.labelled[k] => j = k
        /\ \A c \in Grid : value(c) # INF <=> c \in SeqToSet(s.labelled)
        \* a cell reachable only through threatened cells keeps INF
        /\ \A c \in Grid \ Labellable(g, target) : value(c) = INF

\* C11: in FindDistancesToPoint every unvisited neighbour on the grid of a
\* cell being expanded is labelled with the parent's distance + 1 and marked
\* visited whether or not it is threatened, but is queued only if it is not
\* threatened; no threatened cell is dequeued, each cell is labelled at most
\* once, a threatened neighbour of an expanded cell ends with a finite
\* label, and a cell reachable only through threatened cells keeps INF.
C11_ThreatenedLabelledNotQueued ==
    pc = "step" =>
        \A i \in 1 .. Len(Giants) : SearchIsGated(Giants, Position, Giants[i])

\* A search that labelled a threatened cell two steps from the target
\* without queueing it, dequeued an unthreatened cell, and left an
\* unthreatened cell at INF.
C11_Witness ==
    /\ pc = "step"
    /\ \E i \in 1 .. Len(Giants) :
          LET s == SearchOf(Giants, Position, Giants[i])
          IN  /\ \E j \in 1 .. Len(s.discovered) :
                    /\ ~s.discovered[j].pushed
                    /\ Chebyshev(s.discovered[j].cell, Giants[i]) >= 2
              /\ s.dequeued # << >>
              /\ \E c \in Grid :
                    /\ ~Threatened(Giants, c)
                    /\ FieldAt(Giants, Position, Giants[i], c) = INF

(***************************************************************************)
(* C12                                                                     *)
(***************************************************************************)
\* The square of the Euclidean distance: it orders pairs of grid points as
\* the distance itself does.
EuclidSquared(a, b) == (a.X - b.X) * (a.X - b.X) + (a.Y - b.Y) * (a.Y - b.Y)

\* The turn that has just run moved the agent by the field: MakeDecision
\* reached FindNextPosition and the agent's cell held a finite value in the
\* field rooted at the selected hazard.
MovedByField ==
    /\ pc = "read"
    /\ debug # << >>
    /\ FieldAt(AtEntry.Giants, AtEntry.Position,
               SelectedHazard(AtEntry.Giants, AtEntry.Position),
               AtEntry.Position) # INF

\* The field value the turn that has just run saw at cell c.
EntryField(c) ==
    FieldAt(AtEntry.Giants, AtEntry.Position,
            SelectedHazard(AtEntry.Giants, AtEntry.Position), c)

\* C12: in a turn where the planner moves and the agent's cell holds a
\* finite value in the field rooted at the selected hazard, the destination
\* is a candidate of least field value and, among the candidates of that
\* field value, one of least Euclidean distance to the selected hazard.
C12_FieldThenEuclid ==
    MovedByField
        => /\ Position \in Candidates(AtEntry.Giants, AtEntry.Position)
           /\ \A q \in Candidates(AtEntry.Giants, AtEntry.Position) :
                 /\ EntryField(Position) <= EntryField(q)
                 /\ EntryField(q) = EntryField(Position)
                       => EuclidSquared(Position, SelectedHazard(AtEntry.Giants, AtEntry.Position))
                           <= EuclidSquared(q, SelectedHazard(AtEntry.Giants, AtEntry.Position))

\* The planner moved by the field with a choice to make on both keys: a
\* candidate of larger field value, and a candidate of the same field value
\* further from the selected hazard.
C12_Witness ==
    /\ MovedByField
    /\ Position # AtEntry.Position
    /\ \E q1, q2 \in Candidates(AtEntry.Giants, AtEntry.Position) :
          /\ EntryField(q1) > EntryField(Position)
          /\ EntryField(q2) = EntryField(Position)
          /\ EuclidSquared(q2, debug[2]) > EuclidSquared(Position, debug[2])

(***************************************************************************)
(* C13                                                                     *)
(***************************************************************************)
\* C13: with a strike radius of at least 2 and the agent and the hazards on
\* the grid, in every turn where the planner moves by the field the
\* destination's field value is strictly smaller than the field value of
\* the cell the agent left; so the token of such a turn is never WAIT.
C13_FieldStrictlyDecreases ==
    (MovedByField /\ StrikeRadius >= 2)
        => /\ EntryField(Position) < EntryField(AtEntry.Position)
           /\ output \in Compass

\* With strike radius 2 the planner moved by the field from a cell that was
\* itself a candidate.
C13_Witness ==
    /\ MovedByField
    /\ StrikeRadius >= 2
    /\ AtEntry.Position \in Candidates(AtEntry.Giants, AtEntry.Position)
    /\ Position # AtEntry.Position

=============================================================================
